---- MODULE Spec2Model ----
(***************************************************************************)
(* Aho-Corasick automaton of src/aho_corasick.cc: the trie of patterns     *)
(* (addPattern), its failure and output links (buildFailureLinks), the     *)
(* text traversal (search) and the pattern lookup (getPattern).            *)
(*                                                                         *)
(* A TrieNode is a record; the heap is the sequence `nodes`, a pointer is  *)
(* an index into it and nullptr is NULL.  Nodes are numbered in the order  *)
(* `new TrieNode()` creates them; the root is node Root.                   *)
(***************************************************************************)
EXTENDS Integers, Sequences, FiniteSets, TLC

\* ------------------------------------------------------------------ bounds
MaxPatterns == 2
MaxPatLen == 2
MaxTextLen == 3
ConcPatterns == 1
ConcTextLen == 2

\* The symbols, in the order of operator< on char (std::map iterates in it).
Chars == <<"a", "b">>
Alphabet == {Chars[k] : k \in 1..Len(Chars)}
Strings(n) == UNION {[1..k -> Alphabet] : k \in 0..n}
Searchers == {"s1", "s2"}

VARIABLES
    nodes,      \* the heap of TrieNodes; nodes[Root] is AhoCorasick::root
    patterns,   \* AhoCorasick::patterns
    srch,       \* per caller: the locals of a search in progress
    last,       \* the value the last public call returned
    inserted,   \* history: the arguments of the addPattern calls, in order
    built,      \* history: patterns.size() at the last buildFailureLinks, -1 if none
    relinked    \* history: the last buildFailureLinks ran on links an earlier one
                \* had set, patterns having been added in between

vars == <<nodes, patterns, srch, last, inserted, built, relinked>>

\* ------------------------------------------------------------- TrieNode
NULL == 0
Root == 1

EmptyMap == [c \in {} |-> NULL]

\* TrieNode::TrieNode
NewTrieNode ==
    [children |-> EmptyMap, failureLink |-> NULL, outputLink |-> NULL,
     patternIndices |-> <<>>]

\* AhoCorasick::AhoCorasick: root = new TrieNode(); root->failureLink = root
NewAutomaton ==
    [nodes |-> << [NewTrieNode EXCEPT !.failureLink = Root] >>, patterns |-> <<>>]

HasChild(ns, n, ch) == ch \in DOMAIN ns[n].children

\* The keys of a children map in iteration order.
SortedKeys(m) == SelectSeq(Chars, LAMBDA c : c \in DOMAIN m)

\* std::map::operator[]: the mapped value, a value-initialised (null) entry
\* being inserted first when the key is absent.
MapIndex(ns, n, ch) ==
    IF HasChild(ns, n, ch)
    THEN [nodes |-> ns, value |-> ns[n].children[ch]]
    ELSE [nodes |-> [ns EXCEPT ![n].children = (ch :> NULL) @@ @], value |-> NULL]

\* ------------------------------------------------------------ addPattern
\* The body of the loop over the pattern's characters: create the child when
\* it is missing, then move to it.
AddChar(ns, cur, ch) ==
    LET ns1 == IF ~HasChild(ns, cur, ch)
               THEN Append([ns EXCEPT ![cur].children = (ch :> (Len(ns) + 1)) @@ @],
                           NewTrieNode)
               ELSE ns
    IN  [nodes |-> ns1, currentNode |-> ns1[cur].children[ch]]

RECURSIVE AddWalk(_, _, _, _)
AddWalk(ns, cur, pattern, k) ==
    IF k > Len(pattern)
    THEN [nodes |-> ns, currentNode |-> cur]
    ELSE LET w == AddChar(ns, cur, pattern[k])
         IN  AddWalk(w.nodes, w.currentNode, pattern, k + 1)

addPattern(ns, pats, pattern) ==
    LET patternIndex == Len(pats)
        w == AddWalk(ns, Root, pattern, 1)
    IN  [nodes |-> [w.nodes EXCEPT ![w.currentNode].patternIndices =
                        Append(@, patternIndex)],
         patterns |-> Append(pats, pattern)]

\* ----------------------------------------------------- buildFailureLinks
\* while (temp != root && temp has no transition on ch) temp = temp->failureLink
RECURSIVE FailureWalk(_, _, _)
FailureWalk(ns, temp, ch) ==
    IF temp # Root /\ ~HasChild(ns, temp, ch)
    THEN FailureWalk(ns, ns[temp].failureLink, ch)
    ELSE temp

\* Variant: the failure walk starts at currentNode, not at its failure link.
FailureTargetFromSelf(ns, cur, ch) ==
    LET temp == FailureWalk(ns, cur, ch)
    IN  IF HasChild(ns, temp, ch) THEN ns[temp].children[ch] ELSE Root

\* The failure link of the child of `cur` on `ch`.
FailureTarget(ns, cur, ch) ==
    LET temp == FailureWalk(ns, ns[cur].failureLink, ch)
    IN  IF HasChild(ns, temp, ch) THEN ns[temp].children[ch] ELSE Root

\* The output link of a node whose failure link is failNode.
OutputTarget(ns, failNode) ==
    IF ns[failNode].patternIndices # <<>> THEN failNode ELSE ns[failNode].outputLink

\* Variant: a child whose failure link is already set is left as it is.
LinkChildKeepSet(ns, cur, ch) ==
    LET target == ns[cur].children[ch]
        fl == FailureTarget(ns, cur, ch)
        ns1 == [ns EXCEPT ![target].failureLink = fl]
    IN  IF ns[target].failureLink # NULL
        THEN ns
        ELSE [ns1 EXCEPT ![target].outputLink = OutputTarget(ns1, fl)]

\* One iteration of the loop over currentNode's children, before the push.
LinkChild(ns, cur, ch) ==
    LET target == ns[cur].children[ch]
        fl == FailureTarget(ns, cur, ch)
        ns1 == [ns EXCEPT ![target].failureLink = fl]
    IN  [ns1 EXCEPT ![target].outputLink = OutputTarget(ns1, fl)]

RECURSIVE LinkChildren(_, _, _, _)
LinkChildren(ns, cur, keys, q) ==
    IF keys = <<>>
    THEN [nodes |-> ns, q |-> q]
    ELSE LinkChildren(LinkChild(ns, cur, Head(keys)), cur, Tail(keys),
                      Append(q, ns[cur].children[Head(keys)]))

\* while (!q.empty())
RECURSIVE BfsLoop(_, _)
BfsLoop(ns, q) ==
    IF q = <<>>
    THEN ns
    ELSE LET r == LinkChildren(ns, Head(q), SortedKeys(ns[Head(q)].children), Tail(q))
         IN  BfsLoop(r.nodes, r.q)

\* The first loop: the root's children get failureLink = root, outputLink = nullptr.
RECURSIVE SeedRoot(_, _, _)
SeedRoot(ns, keys, q) ==
    IF keys = <<>>
    THEN [nodes |-> ns, q |-> q]
    ELSE LET child == ns[Root].children[Head(keys)]
         IN  SeedRoot([ns EXCEPT ![child].failureLink = Root,
                                 ![child].outputLink = NULL],
                      Tail(keys), Append(q, child))

buildFailureLinks(ns) ==
    LET s == SeedRoot(ns, SortedKeys(ns[Root].children), <<>>)
    IN  BfsLoop(s.nodes, s.q)

\* ---------------------------------------------------------------- search
\* Variant: a missing transition restarts at the root instead of following
\* the failure links.
SearchFailureWalkToRoot(ns, cur, ch) ==
    IF cur = NULL
    THEN NULL
    ELSE IF cur # Root /\ ~HasChild(ns, cur, ch) THEN Root ELSE cur

\* while (currentNode != root && currentNode has no transition on ch)
\*     currentNode = currentNode->failureLink;
\* NULL stands for the loop having read through a null currentNode.
RECURSIVE SearchFailureWalk(_, _, _)
SearchFailureWalk(ns, cur, ch) ==
    IF cur = NULL
    THEN NULL
    ELSE IF cur # Root /\ ~HasChild(ns, cur, ch)
         THEN SearchFailureWalk(ns, ns[cur].failureLink, ch)
         ELSE cur

\* Variant: the transition indexes the map without the find guard.
GotoUnguarded(ns, cur, ch) ==
    LET r == MapIndex(ns, cur, ch)
    IN  [nodes |-> r.nodes, currentNode |-> r.value]

\* if (currentNode has a transition on ch) currentNode = currentNode->children[ch];
Goto(ns, cur, ch) ==
    IF HasChild(ns, cur, ch)
    THEN LET r == MapIndex(ns, cur, ch)
         IN  [nodes |-> r.nodes, currentNode |-> r.value]
    ELSE [nodes |-> ns, currentNode |-> cur]

\* Variant: the indices of a node are emitted last to first.
EmitReversed(ns, out, i) ==
    [k \in 1..Len(ns[out].patternIndices) |->
        <<ns[out].patternIndices[Len(ns[out].patternIndices) + 1 - k], i>>]

\* for (int patternIndex : outputNode->patternIndices) matches.push_back({patternIndex, i})
Emit(ns, out, i) ==
    [k \in 1..Len(ns[out].patternIndices) |-> <<ns[out].patternIndices[k], i>>]

\* Variant: only the node reached is reported, the output links are not followed.
OutputWalkCurrentOnly(ns, out, i, matches) ==
    IF out = NULL THEN matches ELSE matches \o Emit(ns, out, i)

\* while (outputNode != nullptr) { emit; outputNode = outputNode->outputLink; }
RECURSIVE OutputWalk(_, _, _, _)
OutputWalk(ns, out, i, matches) ==
    IF out = NULL
    THEN matches
    ELSE OutputWalk(ns, ns[out].outputLink, i, matches \o Emit(ns, out, i))

\* Variant: the iteration has no failure-link loop.
SearchCharNoWalk(ns, st, ch) ==
    LET g == Goto(ns, st.currentNode, ch)
    IN  [nodes |-> g.nodes,
         st |-> [currentNode |-> g.currentNode, i |-> st.i + 1, ub |-> FALSE,
                 matches |-> OutputWalk(g.nodes, g.currentNode, st.i, st.matches)]]

\* One iteration of the loop over the text, on the locals st.
SearchChar(ns, st, ch) ==
    LET cur == SearchFailureWalk(ns, st.currentNode, ch)
    IN  IF cur = NULL
        THEN [nodes |-> ns, st |-> [st EXCEPT !.ub = TRUE]]
        ELSE LET g == Goto(ns, cur, ch)
             IN  [nodes |-> g.nodes,
                  st |-> [currentNode |-> g.currentNode, i |-> st.i + 1, ub |-> FALSE,
                          matches |-> OutputWalk(g.nodes, g.currentNode, st.i, st.matches)]]

\* The locals of search at its first line.
SearchStart == [currentNode |-> Root, i |-> 0, ub |-> FALSE, matches |-> <<>>]

RECURSIVE SearchLoop(_, _, _)
SearchLoop(ns, st, text) ==
    IF st.ub \/ ~(st.i < Len(text))
    THEN [nodes |-> ns, st |-> st]
    ELSE LET r == SearchChar(ns, st, text[st.i + 1])
         IN  SearchLoop(r.nodes, r.st, text)

search(ns, text) == SearchLoop(ns, SearchStart, text)

\* What a call can produce once it has read through a null pointer: it may
\* crash, or return what it had, or return that and garbage.
Outcomes(st) ==
    IF st.ub
    THEN {[status |-> "crashed", ub |-> TRUE, matches |-> <<>>],
          [status |-> "returned", ub |-> TRUE, matches |-> st.matches],
          [status |-> "returned", ub |-> TRUE, matches |-> Append(st.matches, <<NULL, NULL>>)]}
    ELSE {[status |-> "returned", ub |-> FALSE, matches |-> st.matches]}

\* ------------------------------------------------------------ getPattern
\* Variant: the range test is index > 0.
getPatternSkipsZero(pats, index) ==
    IF index > 0 /\ index < Len(pats) THEN pats[index + 1] ELSE <<>>

getPattern(pats, index) ==
    IF index >= 0 /\ index < Len(pats) THEN pats[index + 1] ELSE <<>>

\* --------------------------------------------------------------- actions
NoResult ==
    [op |-> "none", text |-> <<>>, index |-> 0, status |-> "returned", ub |-> FALSE,
     matches |-> <<>>, value |-> <<>>]

Idle ==
    [pc |-> "idle", text |-> <<>>, st |-> SearchStart, expected |-> SearchStart]

Init ==
    /\ nodes = NewAutomaton.nodes
    /\ patterns = NewAutomaton.patterns
    /\ srch = [p \in Searchers |-> Idle]
    /\ last = NoResult
    /\ inserted = <<>>
    /\ built = -1
    /\ relinked = FALSE

\* A caller makes one call at a time and drops the value a call returned
\* before it makes the next one.
Ready == last.op = "none"

AddPattern(pattern) ==
    /\ Ready
    /\ Len(patterns) < MaxPatterns
    /\ LET r == addPattern(nodes, patterns, pattern)
       IN  /\ nodes' = r.nodes
           /\ patterns' = r.patterns
    /\ inserted' = Append(inserted, pattern)
    /\ last' = NoResult
    /\ UNCHANGED <<srch, built, relinked>>

Build ==
    /\ Ready
    /\ nodes' = buildFailureLinks(nodes)
    /\ built' = Len(patterns)
    /\ relinked' = (built >= 0 /\ (built < Len(patterns) \/ relinked))
    /\ last' = NoResult
    /\ UNCHANGED <<patterns, srch, inserted>>

Search(text) ==
    /\ Ready
    /\ LET r == search(nodes, text)
       IN  /\ nodes' = r.nodes
           /\ \E o \in Outcomes(r.st) :
                last' = [NoResult EXCEPT !.op = "search", !.text = text,
                                         !.status = o.status, !.ub = o.ub,
                                         !.matches = o.matches]
    /\ UNCHANGED <<patterns, srch, inserted, built, relinked>>

GetPattern(index) ==
    /\ Ready
    /\ last' = [NoResult EXCEPT !.op = "getPattern", !.index = index,
                                !.value = getPattern(patterns, index)]
    /\ UNCHANGED <<nodes, patterns, srch, inserted, built, relinked>>

\* The caller's copy of the returned value goes out of scope.
Discard ==
    /\ ~Ready
    /\ last' = NoResult
    /\ UNCHANGED <<nodes, patterns, srch, inserted, built, relinked>>

\* Any use of the public interface, in any order.
Next ==
    \/ \E pattern \in Strings(MaxPatLen) : AddPattern(pattern)
    \/ Build
    \/ \E text \in Strings(MaxTextLen) : Search(text)
    \/ \E index \in -2..(MaxPatterns + 1) : GetPattern(index)
    \/ Discard

Spec == Init /\ [][Next]_vars

\* ------------------------------------------- searches that run interleaved
\* Callers that search the finished automaton at the same time.  A step of a
\* caller is one iteration of the loop over its text; `expected` is what the
\* same call returns when nothing else runs, taken when the call starts.
ConcAdd(pattern) ==
    /\ built = -1
    /\ Len(patterns) < ConcPatterns
    /\ AddPattern(pattern)

ConcBuild ==
    /\ built = -1
    /\ Build

StartSearch(p, text) ==
    /\ built >= 0
    /\ srch[p].pc = "idle"
    /\ srch' = [srch EXCEPT ![p] = [pc |-> "run", text |-> text, st |-> SearchStart,
                                    expected |-> search(nodes, text).st]]
    /\ UNCHANGED <<nodes, patterns, last, inserted, built, relinked>>

SearchStep(p) ==
    /\ srch[p].pc = "run"
    /\ srch[p].st.i < Len(srch[p].text)
    /\ ~srch[p].st.ub
    /\ LET r == SearchChar(nodes, srch[p].st, srch[p].text[srch[p].st.i + 1])
       IN  /\ nodes' = r.nodes
           /\ srch' = [srch EXCEPT ![p].st = r.st]
    /\ UNCHANGED <<patterns, last, inserted, built, relinked>>

SearchReturn(p) ==
    /\ srch[p].pc = "run"
    /\ srch[p].st.ub \/ ~(srch[p].st.i < Len(srch[p].text))
    /\ srch' = [srch EXCEPT ![p].pc = "done"]
    /\ UNCHANGED <<nodes, patterns, last, inserted, built, relinked>>

NextConc ==
    \/ \E pattern \in Strings(MaxPatLen) : ConcAdd(pattern)
    \/ ConcBuild
    \/ \E p \in Searchers, text \in Strings(ConcTextLen) : StartSearch(p, text)
    \/ \E p \in Searchers : SearchStep(p)
    \/ \E p \in Searchers : SearchReturn(p)

SpecConc == Init /\ [][NextConc]_vars

\* ------------------------------------------------ what the claims speak of
IsPrefixOf(u, w) == Len(u) <= Len(w) /\ SubSeq(w, 1, Len(u)) = u
IsSuffixOf(u, w) == Len(u) <= Len(w) /\ SubSeq(w, Len(w) - Len(u) + 1, Len(w)) = u

\* Pattern p occurs in text ending at the 0-based position j.
OccursAt(p, text, j) ==
    /\ j >= 0 /\ j < Len(text)
    /\ j - Len(p) + 1 >= 0
    /\ SubSeq(text, j - Len(p) + 2, j + 1) = p

Count(seq, x) == Cardinality({k \in 1..Len(seq) : seq[k] = x})

\* The 0-based indices and the text positions the claims quantify over.
Indices == 0..(Len(inserted) - 1)
Positions(text) == 0..(Len(text) - 1)
PatternAt(i) == inserted[i + 1]

\* The links were computed for every pattern inserted so far.
Linked == built >= 0 /\ built = Len(inserted)
Searched == last.op = "search"

\* The string a node stands for: the labels on the path from the root to it.
RECURSIVE PathOf(_, _)
PathOf(ns, n) ==
    IF n = Root
    THEN <<>>
    ELSE LET par == CHOOSE q \in 1..Len(ns) :
                        \E c \in DOMAIN ns[q].children : ns[q].children[c] = n
             ch == CHOOSE c \in DOMAIN ns[par].children : ns[par].children[c] = n
         IN  Append(PathOf(ns, par), ch)

Depth(ns, n) == Len(PathOf(ns, n))

\* Every prefix of every inserted pattern, the empty one included.
PatternPrefixes ==
    {<<>>} \cup UNION {{SubSeq(inserted[k], 1, m) : m \in 0..Len(inserted[k])} :
                          k \in 1..Len(inserted)}

\* The longest proper suffix of w that is a prefix of some inserted pattern.
LongestProperSuffix(w) ==
    CHOOSE u \in PatternPrefixes :
        /\ IsSuffixOf(u, w) /\ Len(u) < Len(w)
        /\ \A v \in PatternPrefixes :
              IsSuffixOf(v, w) /\ Len(v) < Len(w) => Len(v) <= Len(u)

\* The first node with patterns on the failure-link chain that starts at f.
RECURSIVE NearestTerminal(_, _)
NearestTerminal(ns, f) ==
    IF ns[f].patternIndices # <<>> THEN f
    ELSE IF f = Root THEN NULL
    ELSE NearestTerminal(ns, ns[f].failureLink)

\* The pattern indices met from node n along the output links.
ChainIndices(ns, n) ==
    LET m == OutputWalk(ns, n, 0, <<>>) IN [k \in 1..Len(m) |-> m[k][1]]

\* The automaton a fresh object has after the same addPattern calls and one
\* buildFailureLinks.
RECURSIVE InsertAll(_, _, _)
InsertAll(a, pats, k) ==
    IF k > Len(pats) THEN a
    ELSE InsertAll(addPattern(a.nodes, a.patterns, pats[k]), pats, k + 1)

FreshNodes == buildFailureLinks(InsertAll(NewAutomaton, inserted, 1).nodes)

\* ---------------------------------------------------------------- claims
\* C1 (completeness): once the links are built for all inserted patterns,
\* search returns normally and, for every inserted pattern of length >= 1 and
\* every position where it occurs in the text, holds the pair (index,
\* position) exactly once; equal strings inserted separately have their own
\* indices, each reported.
C1_Complete ==
    Linked /\ Searched =>
        /\ ~last.ub
        /\ patterns = inserted
        /\ \A i \in Indices : \A j \in Positions(last.text) :
              Len(PatternAt(i)) >= 1 /\ OccursAt(PatternAt(i), last.text, j)
                  => Count(last.matches, <<i, j>>) = 1

\* Two overlapping occurrences of a pattern inserted twice, all four reported.
C1_Witness ==
    /\ Linked /\ Searched
    /\ \E i1, i2 \in Indices : \E j \in Positions(last.text) :
          /\ i1 # i2 /\ PatternAt(i1) = PatternAt(i2) /\ Len(PatternAt(i1)) = 2
          /\ OccursAt(PatternAt(i1), last.text, j)
          /\ OccursAt(PatternAt(i1), last.text, j + 1)
          /\ \A x \in {<<i1, j>>, <<i2, j>>, <<i1, j + 1>>, <<i2, j + 1>>} :
                Count(last.matches, x) = 1

\* C2 (soundness): once the links are built, every returned pair is an
\* inserted pattern's index and a position of the text where that pattern
\* ends; with no pattern, or with the empty text, nothing is returned.
C2_Sound ==
    Linked /\ Searched =>
        /\ ~last.ub
        /\ \A k \in 1..Len(last.matches) :
              LET i == last.matches[k][1]
                  j == last.matches[k][2]
              IN  /\ i \in Indices
                  /\ j \in Positions(last.text)
                  /\ OccursAt(PatternAt(i), last.text, j)
        /\ (inserted = <<>> => last.matches = <<>>)
        /\ (last.text = <<>> => last.matches = <<>>)

\* A search that came back from a state by failure links and then matched.
C2_Witness ==
    /\ Linked /\ Searched
    /\ inserted = << <<"a", "b">> >>
    /\ last.text = <<"a", "a", "b">>
    /\ last.matches = << <<0, 2>> >>

\* C3 (order): the returned positions never decrease; at one position a
\* later pair's pattern is never longer than an earlier pair's, and pairs of
\* equal strings come in the order of insertion.
C3_Order ==
    Linked /\ Searched =>
        \A k, l \in 1..Len(last.matches) :
            k < l =>
                /\ last.matches[k][2] <= last.matches[l][2]
                /\ last.matches[k][2] = last.matches[l][2] =>
                      /\ Len(PatternAt(last.matches[k][1])) >=
                            Len(PatternAt(last.matches[l][1]))
                      /\ PatternAt(last.matches[k][1]) = PatternAt(last.matches[l][1])
                            => last.matches[k][1] < last.matches[l][1]

\* At one position: a longer pattern, then a shorter one; elsewhere a string
\* inserted twice.
C3_Witness ==
    /\ Linked /\ Searched
    /\ \E k \in 1..(Len(last.matches) - 1) :
          /\ last.matches[k][2] = last.matches[k + 1][2]
          /\ Len(PatternAt(last.matches[k][1])) > Len(PatternAt(last.matches[k + 1][1]))
    /\ \E k \in 1..(Len(last.matches) - 1) :
          /\ last.matches[k][2] < last.matches[k + 1][2]

\* C4 (zero-length patterns): the empty pattern's index is attached to the
\* root and, once the links are built, search reports it at every position of
\* the text.
C4_EmptyEverywhere ==
    Linked =>
        \A i \in Indices :
            PatternAt(i) = <<>> =>
                /\ \E k \in 1..Len(nodes[Root].patternIndices) :
                      nodes[Root].patternIndices[k] = i
                /\ Searched /\ ~last.ub =>
                      \A j \in Positions(last.text) :
                          \E k \in 1..Len(last.matches) : last.matches[k] = <<i, j>>

\* C5 (read-only search): after the build a step of a search changes no node
\* and no stored pattern, and each of several interleaved searches ends,
\* without reading through a null pointer, with the matches the same call
\* returns when it runs alone.
C5_ReadOnlySearch ==
    /\ [](\A p \in Searchers :
            srch[p].pc = "done" =>
                /\ ~srch[p].st.ub
                /\ ~srch[p].expected.ub
                /\ srch[p].st.matches = srch[p].expected.matches)
    /\ [][srch' # srch => nodes' = nodes /\ patterns' = patterns]_vars

\* Two searches of different texts, both under way, one with a match already.
C5_Witness ==
    /\ srch["s1"].pc = "run" /\ srch["s2"].pc = "run"
    /\ srch["s1"].st.i = 1 /\ srch["s2"].st.i = 1
    /\ Len(srch["s1"].text) = 2 /\ Len(srch["s2"].text) = 2
    /\ srch["s1"].text # srch["s2"].text
    /\ srch["s1"].st.matches # <<>>

\* C6 (getPattern): the string of the (index+1)-th addPattern call for an
\* index in range, the empty string for every other index; the stored
\* patterns are the inserted ones, unchanged.
C6_GetPattern ==
    /\ patterns = inserted
    /\ last.op = "getPattern" =>
          last.value = (IF last.index \in Indices THEN PatternAt(last.index) ELSE <<>>)

\* A lookup of the first pattern, a non-empty one.
C6_Witness ==
    /\ last.op = "getPattern"
    /\ last.index = 0
    /\ last.value # <<>>
    /\ Len(inserted) = 2

\* The part of the text a search reads before the links are built: the scan
\* stays at the root while the symbols start no pattern, and from the first
\* symbol that starts one it can only go down the trie.
FirstChars == {inserted[k][1] : k \in {m \in 1..Len(inserted) : inserted[m] # <<>>}}
RootRun(text) ==
    CHOOSE k \in 0..Len(text) :
        /\ \A m \in 1..k : text[m] \notin FirstChars
        /\ k < Len(text) => text[k + 1] \in FirstChars
Descent(text) == SubSeq(text, RootRun(text) + 1, Len(text))

\* C7 as stated (search before build): no node has an output link, no node
\* but the root (whose failure link the constructor sets) has a failure link,
\* and a search that returns without reading through a null pointer returns
\* no match.
C7_NothingBeforeBuild ==
    built = -1 /\ Len(inserted) >= 1 =>
        /\ \A n \in 1..Len(nodes) :
              /\ nodes[n].outputLink = NULL
              /\ n # Root => nodes[n].failureLink = NULL
        /\ Searched /\ ~last.ub => last.matches = <<>>

\* C7 as amended: before any build no node has an output link and no node
\* but the root has a failure link; a search reads through a null failure
\* link exactly when, after the symbols that start no pattern, the rest of
\* the text is not a prefix of an inserted pattern; otherwise it returns
\* normally, with exactly the empty pattern at each position before the
\* descent and each pattern that is a prefix of the rest of the text.
C7_BeforeBuild ==
    built = -1 /\ Len(inserted) >= 1 =>
        /\ \A n \in 1..Len(nodes) :
              /\ nodes[n].outputLink = NULL
              /\ nodes[n].failureLink = (IF n = Root THEN Root ELSE NULL)
        /\ Searched =>
              LET k == RootRun(last.text)
                  v == Descent(last.text)
              IN  /\ last.ub <=> v \notin PatternPrefixes
                  /\ ~last.ub =>
                        /\ \A m \in 1..Len(last.matches) :
                              /\ last.matches[m][1] \in Indices
                              /\ last.matches[m][2] \in Positions(last.text)
                        /\ \A i \in Indices : \A j \in Positions(last.text) :
                              Count(last.matches, <<i, j>>) =
                                  (IF \/ PatternAt(i) = <<>> /\ j < k
                                      \/ /\ PatternAt(i) # <<>>
                                         /\ IsPrefixOf(PatternAt(i), v)
                                         /\ j = k + Len(PatternAt(i)) - 1
                                   THEN 1 ELSE 0)

\* A search before any build that returns normally with a match.
C7_Witness ==
    /\ built = -1 /\ Len(inserted) >= 1
    /\ Searched /\ ~last.ub /\ last.status = "returned"
    /\ last.matches # <<>>

\* C8 (failure links): once built, every node has a failure link; it is the
\* root for the root and for the nodes of depth 1; for any other node it is
\* the node of the longest proper suffix of the node's string that is a
\* prefix of an inserted pattern, and it lies strictly nearer the root.
\* (Read when no returned value is held: a state that holds one has the same
\* nodes as the state Discard leads to.)
C8_FailureLinks ==
    Linked /\ Ready =>
        \A n \in 1..Len(nodes) :
            LET f == nodes[n].failureLink
            IN  /\ f \in 1..Len(nodes)
                /\ n = Root => f = Root
                /\ Depth(nodes, n) = 1 => f = Root
                /\ n # Root =>
                      /\ PathOf(nodes, f) = LongestProperSuffix(PathOf(nodes, n))
                      /\ Depth(nodes, f) < Depth(nodes, n)

\* A node of depth 2 whose failure link is not the root.
C8_Witness ==
    /\ Linked
    /\ \E n \in 1..Len(nodes) :
          /\ Depth(nodes, n) = 2
          /\ nodes[n].failureLink # Root
          /\ nodes[n].failureLink # NULL

\* C9 (output links): once built, a node's output link is the nearest node
\* with patterns on its failure-link chain from its failure link on (absent
\* when there is none, and for the root), and the walk along output links
\* from a node meets exactly the indices of the inserted patterns that are
\* suffixes of the node's string, each once.
C9_OutputLinks ==
    Linked =>
        \A n \in 1..Len(nodes) :
            /\ nodes[n].outputLink =
                  (IF n = Root THEN NULL
                   ELSE NearestTerminal(nodes, nodes[n].failureLink))
            /\ \A i \in Indices :
                  Count(ChainIndices(nodes, n), i) =
                      (IF IsSuffixOf(PatternAt(i), PathOf(nodes, n)) THEN 1 ELSE 0)
            /\ \A k \in 1..Len(ChainIndices(nodes, n)) :
                  ChainIndices(nodes, n)[k] \in Indices

\* C10 (rebuilding): whenever the links are built for all inserted patterns,
\* however many builds and insertions came before, the automaton is the one a
\* fresh object has after the same insertions and one build, and a search
\* returns what it returns on that one.
C10_Rebuild ==
    Linked =>
        /\ Ready => nodes = FreshNodes
        /\ Searched =>
              /\ ~last.ub
              /\ last.matches = search(FreshNodes, last.text).st.matches

\* A search of an automaton that was built, extended and built again, whose
\* second build changed a link of an old node.
C10_Witness ==
    /\ Linked /\ relinked /\ Searched
    /\ inserted = << <<"a", "b">>, <<"b">> >>
    /\ last.text = <<"a", "b">>
    /\ last.matches = << <<0, 1>>, <<1, 1>> >>

====
